---- MODULE Spec2Model ----
(***************************************************************************)
(* The VR4300 pipeline of CEN64 (vr4300/pipeline.c): the five stage        *)
(* functions, the slow-path chain, the busy-wait handler and vr4300_cycle. *)
(*                                                                         *)
(* Machine words keep their width.  TLC's integers are 32-bit signed, so a *)
(* uint64_t is a tuple of four 16-bit limbs and a uint32_t a tuple of two, *)
(* least significant limb first.  Addresses (pc, vaddr, paddr) stay small  *)
(* in every run and are plain naturals.                                    *)
(***************************************************************************)
EXTENDS Integers, Sequences, FiniteSets, TLC

----------------------------------------------------------------------------
(* Bounds of the model.                                                    *)

\* Ticks explored: vr4300_cycle is called while cycles < MaxCycles.
MaxCycles == 12
\* Instructions of the program placed at address 0 (the rest reads as NOP).
ProgLen == 2
\* Longest stall an interlock handler asks for (cycles_to_stall).
MaxStall == 1

----------------------------------------------------------------------------
(* Fixed-width arithmetic on limbs.                                        *)

Limb == 2^16
LimbMax == Limb - 1

RECURSIVE AndBits(_, _)
\* a & b on naturals.
AndBits(a, b) ==
  IF a = 0 \/ b = 0 THEN 0
  ELSE (a % 2) * (b % 2) + 2 * AndBits(a \div 2, b \div 2)

\* a | b on naturals.
OrBits(a, b) == a + b - AndBits(a, b)

\* A small natural as a uint64_t / uint32_t.
U64(n) == <<n % Limb, (n \div Limb) % Limb, 0, 0>>
U32(n) == <<n % Limb, (n \div Limb) % Limb>>
Zero64 == <<0, 0, 0, 0>>
Ones64 == <<LimbMax, LimbMax, LimbMax, LimbMax>>
Zero32 == <<0, 0>>
Ones32 == <<LimbMax, LimbMax>>

\* Bitwise operators on words of any number of limbs.
And(a, b) == [i \in DOMAIN a |-> AndBits(a[i], b[i])]
Or(a, b) == [i \in DOMAIN a |-> OrBits(a[i], b[i])]
Not(a) == [i \in DOMAIN a |-> LimbMax - a[i]]

\* Bit k (0 = least significant) of a word.
Bit(a, k) == (a[(k \div 16) + 1] \div (2^(k % 16))) % 2

\* Limb i of a word, 0 outside the word.
LimbAt(a, i) == IF i \in DOMAIN a THEN a[i] ELSE 0

\* a << s and a >> s (logical), truncated to the width of a.
ShiftL(a, s) ==
  LET q == s \div 16
      r == s % 16
  IN [i \in DOMAIN a |->
        ((LimbAt(a, i - q) % (2^(16 - r))) * (2^r))
          + (LimbAt(a, i - q - 1) \div (2^(16 - r)))]
ShiftR(a, s) ==
  LET q == s \div 16
      r == s % 16
  IN [i \in DOMAIN a |->
        (LimbAt(a, i + q) \div (2^r))
          + ((LimbAt(a, i + q + 1) % (2^r)) * (2^(16 - r)))]

\* The sign bit of a word, and a >> s on the signed reading of a.
Sign(a) == Bit(a, 16 * Len(a) - 1)
ShiftRA(a, s) ==
  IF Sign(a) = 0 THEN ShiftR(a, s)
  ELSE Or(ShiftR(a, s), ShiftL([i \in DOMAIN a |-> LimbMax], 16 * Len(a) - s))

\* (int64_t) of an int32_t, (uint32_t) of a uint64_t, hi << 32 | lo.
SignExtend(w) == <<w[1], w[2], Sign(w) * LimbMax, Sign(w) * LimbMax>>
Low32(a) == <<a[1], a[2]>>
High32(a) == <<a[3], a[4]>>
Join64(hi, lo) == <<lo[1], lo[2], hi[1], hi[2]>>

\* a + c for a carry-sized c, wrapping at the width of a.
RECURSIVE AddLimbs(_, _, _)
AddLimbs(a, c, i) ==
  IF i > Len(a) THEN <<>>
  ELSE <<(a[i] + c) % Limb>> \o AddLimbs(a, (a[i] + c) \div Limb, i + 1)
Add(a, c) == AddLimbs(a, c, 1)

\* A word that fits a TLC integer, as that integer.
Nat32(a) == a[1] + Limb * a[2]

\* F(x), with x evaluated once: the value of one statement handed to the
\* statements after it.
Then(x, F(_)) == CHOOSE y \in {F(v) : v \in {x}} : TRUE

----------------------------------------------------------------------------
(* Register file indices, fault kinds, pipeline cycle types.               *)

VR4300_REGISTER_R0 == 0
VR4300_REGISTER_CP1_0 == 32
VR4300_CP0_REGISTER_COUNT == 73
VR4300_CP0_REGISTER_ENTRYHI == 74
VR4300_CP0_REGISTER_COMPARE == 75
VR4300_CP0_REGISTER_STATUS == 76
VR4300_CP0_REGISTER_CAUSE == 77
PIPELINE_CYCLE_TYPE == 110

\* The slots of regs[] the model keeps: r0..r2, f0, and the CP0 and
\* cycle-type slots the pipeline reads.
RegIdx ==
  {VR4300_REGISTER_R0, 1, 2, VR4300_REGISTER_CP1_0,
   VR4300_CP0_REGISTER_COUNT, VR4300_CP0_REGISTER_ENTRYHI,
   VR4300_CP0_REGISTER_COMPARE, VR4300_CP0_REGISTER_STATUS,
   VR4300_CP0_REGISTER_CAUSE, PIPELINE_CYCLE_TYPE}

VR4300_FAULT_NONE == "NONE"

VR4300_BUS_REQUEST_NONE == "NONE"
VR4300_BUS_REQUEST_READ == "READ"
VR4300_BUS_REQUEST_WRITE == "WRITE"

VR4300_SIGNAL_COLDRESET == 1

\* Indices of pipeline_function_lut.
CycleTypeWB == 0
CycleTypeDC == 1
CycleTypeEX == 2
CycleTypeRF == 3
CycleTypeIC == 4
CycleTypeBusyWait == 5
CycleTypeDCB == 6

\* Flag bits of an opcode record, as a set of names.
OPCODE_INFO_NEEDRS == "NEEDRS"
OPCODE_INFO_NEEDRT == "NEEDRT"
OPCODE_INFO_BRANCH == "BRANCH"
\* flags & 0x1 and flags & 0x2: rs / rt name a CP1 register.
OPCODE_INFO_FPU_RS == "FS"
OPCODE_INFO_FPU_RT == "FT"

----------------------------------------------------------------------------
(* Segments (the address translator).                                      *)

SegA == [start |-> 0, length |-> 16, offset |-> 0, mapped |-> FALSE, cached |-> TRUE]
SegB == [start |-> 16, length |-> 16, offset |-> 0, mapped |-> FALSE, cached |-> TRUE]
\* A descriptor that covers no address: every use of it forces a lookup.
SegEmpty == [start |-> 0, length |-> 0, offset |-> 0, mapped |-> FALSE, cached |-> TRUE]
SegmentTable == {SegA, SegB}

\* A window test that is off by one at the upper end.
OutsideSegmentInclusive(a, segment) ==
  IF a >= segment.start THEN a - segment.start > segment.length ELSE TRUE

\* (a - start) >= length on uint64_t: a below start wraps to a huge value.
OutsideSegment(a, segment) ==
  IF a >= segment.start THEN a - segment.start >= segment.length ELSE TRUE

\* get_default_segment()
get_default_segment == SegEmpty

\* get_segment(address, cp0_status): <<segment>>, or <<>> for NULL.
get_segment(address, cp0_status) ==
  LET hits == {g \in SegmentTable : ~OutsideSegment(address, g)}
  IN IF hits = {} THEN <<>> ELSE <<CHOOSE g \in hits : TRUE>>

----------------------------------------------------------------------------
(* Instruction words and the decoder.                                      *)

\* iw >> s & 0x1F
Field5(iw, s) == ShiftR(iw, s)[1] % 32
\* The 16-bit immediate, zero- and sign-extended.
Imm16(iw) == iw[1]
SImm16(iw) == IF iw[1] >= 2^15 THEN iw[1] - Limb ELSE iw[1]

\* MIPS encodings: opcode << 26 | rs << 21 | rt << 16 | imm, and
\* SPECIAL: rs << 21 | rt << 16 | rd << 11 | funct.
EncodeI(op, rs, rt, imm) == <<imm % Limb, op * 1024 + rs * 32 + rt>>
EncodeR(rs, rt, rd, funct) == <<rd * 2048 + funct, rs * 32 + rt>>

IW_NOP == Zero32
IW_ORI_R0 == EncodeI(13, 0, 0, 3)          \* ori r0, r0, 3
IW_ORI_R1 == EncodeI(13, 0, 1, 4)          \* ori r1, r0, 4
IW_LW_R1 == EncodeI(35, 0, 1, 24)          \* lw  r1, 24(r0)
IW_OR_R2 == EncodeR(1, 1, 2, 37)           \* or  r2, r1, r1
IW_SW_R1 == EncodeI(43, 1, 1, 24)          \* sw  r1, 24(r1)
IW_BEQ_SELF == EncodeI(4, 0, 0, LimbMax)   \* beq r0, r0, -1 (an idle loop)

\* The instruction words a program is drawn from.
InstrSet ==
  {IW_ORI_R0, IW_ORI_R1, IW_LW_R1, IW_OR_R2, IW_SW_R1, IW_BEQ_SELF}

\* vr4300_decode_instruction(iw): the opcode record (id, flags).
vr4300_decode_instruction(iw) ==
  LET op == iw[2] \div 1024
      funct == iw[1] % 64
  IN CASE op = 0 /\ funct = 37 ->
            [id |-> "OR", flags |-> {OPCODE_INFO_NEEDRS, OPCODE_INFO_NEEDRT}]
       [] op = 13 -> [id |-> "ORI", flags |-> {OPCODE_INFO_NEEDRS}]
       [] op = 35 -> [id |-> "LW", flags |-> {OPCODE_INFO_NEEDRS}]
       [] op = 43 ->
            [id |-> "SW", flags |-> {OPCODE_INFO_NEEDRS, OPCODE_INFO_NEEDRT}]
       [] op = 4 ->
            [id |-> "BEQ",
             flags |-> {OPCODE_INFO_NEEDRS, OPCODE_INFO_NEEDRT, OPCODE_INFO_BRANCH}]
       [] OTHER -> [id |-> "SLL", flags |-> {}]

----------------------------------------------------------------------------
(* The machine.                                                            *)

\* struct vr4300: the register file, the cycle counter, the signals, the
\* pipeline object and the two caches; mem is the memory behind the caches.
\* obs and trk observe the run and are read by no stage.
VARIABLES regs, cycles, signals, pipeline, icache, dcache, mem, halted, obs, trk

vars == <<regs, cycles, signals, pipeline, icache, dcache, mem, halted, obs, trk>>

\* The machine as one value, for the stage functions to transform.
Machine ==
  [regs |-> regs, cycles |-> cycles, signals |-> signals, pipeline |-> pipeline,
   icache |-> icache, dcache |-> dcache, mem |-> mem, halted |-> halted,
   obs |-> obs, trk |-> trk]

\* Words of memory, lines of the caches.
MemWords == 0..7
ICacheLineOf(paddr) == paddr \div 32
DCacheLineOf(paddr) == paddr \div 16
DCacheLines == 0..1

\* A register slot the model does not keep reads as zero and ignores writes.
RegRead(r, i) == IF i \in DOMAIN r THEN r[i] ELSE Zero64
RegWrite(r, i, v) == IF i \in DOMAIN r THEN [r EXCEPT ![i] = v] ELSE r

\* The C-latch.
Latch(pc, fault, cause_data) == [pc |-> pc, fault |-> fault, cause_data |-> cause_data]
LatchZero == Latch(0, VR4300_FAULT_NONE, Zero32)

RequestZero ==
  [type |-> VR4300_BUS_REQUEST_NONE, vaddr |-> 0, paddr |-> 0, size |-> 0,
   two_words |-> FALSE, dqm |-> Zero64, postshift |-> 0, data |-> Zero64]

\* What trk keeps of the instruction held by a latch: the tick (value of the
\* cycle counter) at which each stage handled it, -1 while it has not; the
\* registers its opcode flags require (-1 for none) and the values EX read
\* for rs and rt; what DC handed to WB; and the number of aborts (lost: all
\* but load-delay interlocks, ldis: load-delay interlocks) the machine had
\* seen when IC stamped it and when WB retired it; and the stages that ran
\* on it to completion, in the order in which they did (done).
TrkNone ==
  [pc |-> -1, tIC |-> -1, tRF |-> -1, tEX |-> -1, tDC |-> -1, tWB |-> -1,
   firstEX |-> -1, nLDI |-> 0, load |-> FALSE, dest |-> 0,
   rs |-> -1, rt |-> -1, rs_reg |-> Zero64, rt_reg |-> Zero64,
   loaded |-> Zero64, result |-> Zero64, lost |-> 0, ldis |-> 0,
   lostWB |-> 0, ldisWB |-> 0, done |-> <<>>]

\* What obs keeps of the last tick.
ObsNone ==
  [dispatch |-> "none", ran |-> <<>>, copied |-> <<>>, abort |-> "none",
   raised |-> VR4300_FAULT_NONE, dead |-> FALSE, compare |-> FALSE,
   checked |-> -1, type |-> 0, lookups |-> 0, dc |-> {}]

\* obs after stage function st ran on an input latch with fault tag f.
ObsRan(m, st, f) ==
  [m EXCEPT !.obs.ran = Append(@, st),
            !.obs.dead = @ \/ (f # VR4300_FAULT_NONE)]
\* obs after the slow path copied a C-latch forward in place of stage st.
ObsCopied(m, st) == [m EXCEPT !.obs.copied = Append(@, st)]

----------------------------------------------------------------------------
(* The fault raisers (vr4300/fault.c) and the opcode functions, as the     *)
(* specification describes them.                                           *)
(*                                                                         *)
(* An interlock (ICB, LDI, DCM) leaves the instruction alive: it sets the  *)
(* pipeline cycle type to the stage that aborted, so that the stage runs   *)
(* again on the same instruction, asks for a stall, and removes the cause  *)
(* (fills the line, retires the load's bus request).  A true fault (IADE,  *)
(* DADE, INTR, RST) tags the latch of the stage that raised it and of      *)
(* every younger instruction, sets fault_present, clears the exception     *)
(* history and updates CP0 so that the same fault is not taken twice.      *)

StatusEXL == U64(2)
StatusERL == U64(4)

SetCycleType(m, type) == [m EXCEPT !.regs[PIPELINE_CYCLE_TYPE] = U64(type)]

\* The part common to the true faults.
RaiseFault(m, kind, type, statusBits) ==
  [SetCycleType(m, type) EXCEPT
     !.pipeline.fault_present = TRUE,
     !.pipeline.exception_history = 0,
     !.regs[VR4300_CP0_REGISTER_STATUS] = Or(@, statusBits),
     !.obs.raised = kind,
     !.trk.lost = @ + 1,
     !.trk.faults = @ + 1,
     !.trk.wbTicks = 0]

\* A true fault raised in DC: the instruction in DC and all younger ones die,
\* and the word waiting in RF/EX is masked to a no-op.
DcFault(m, kind, statusBits) ==
  [RaiseFault(m, kind, CycleTypeDC, statusBits) EXCEPT
     !.pipeline.dcwb_latch.common.fault = kind,
     !.pipeline.exdc_latch.common.fault = kind,
     !.pipeline.rfex_latch.common.fault = kind,
     !.pipeline.icrf_latch.common.fault = kind,
     !.pipeline.rfex_latch.iw_mask = Zero32]

VR4300_INTR(m) == DcFault(m, "INTR", StatusEXL)
VR4300_DADE(m) == DcFault(m, "DADE", StatusEXL)
VR4300_RST(m) ==
  [DcFault(m, "RST", StatusERL) EXCEPT
     !.signals = IF @ >= VR4300_SIGNAL_COLDRESET THEN @ - VR4300_SIGNAL_COLDRESET ELSE @]

VR4300_IADE(m) ==
  [RaiseFault(m, "IADE", CycleTypeIC, StatusEXL) EXCEPT
     !.pipeline.icrf_latch.common.fault = "IADE"]

\* The part common to the interlocks.
RaiseInterlock(m, kind, type, delay) ==
  [SetCycleType(m, type) EXCEPT
     !.pipeline.cycles_to_stall = delay,
     !.obs.raised = kind,
     !.trk.lost = @ + (IF kind = "LDI" THEN 0 ELSE 1),
     !.trk.ldis = @ + (IF kind = "LDI" THEN 1 ELSE 0)]

\* The instruction cache line of RF/EX's paddr is filled.
VR4300_ICB(m, in) ==
  [RaiseInterlock(m, "ICB", CycleTypeRF, in.delay) EXCEPT
     !.icache = @ \cup {ICacheLineOf(m.pipeline.rfex_latch.paddr)}]

\* The load in DC has been handled: its bus request is retired.
VR4300_LDI(m) ==
  [RaiseInterlock(m, "LDI", CycleTypeEX, 0) EXCEPT
     !.pipeline.exdc_latch.request.type = VR4300_BUS_REQUEST_NONE,
     !.trk.rfex.nLDI = @ + 1]

\* The data cache line as memory holds it.
DCacheFill(m, line) ==
  [valid |-> TRUE, dirty |-> FALSE,
   data |-> [w \in 0..3 |-> m.mem[4 * line + w]]]

\* The data cache line of the request's paddr is filled, at once or by a
\* block fetch that the data-cache-busy cycle type waits for.
VR4300_DCM(m, in) ==
  LET line == DCacheLineOf(m.pipeline.exdc_latch.request.paddr)
      type == IF in.block THEN CycleTypeDCB ELSE CycleTypeDC
  IN [RaiseInterlock(m, "DCM", type, in.delay) EXCEPT
        !.dcache[line] = DCacheFill(m, line)]

\* pipeline_function_lut[6]: the block fetch is over, DC runs again.
VR4300_DCB(m) == [SetCycleType(m, CycleTypeDC) EXCEPT !.obs.raised = "DCB"]

\* An address no segment covers.
BadAddress == 2^30
\* rs + offset as an address.
EffectiveAddress(base, offset) ==
  IF base[2] < 2^14 /\ base[3] = 0 /\ base[4] = 0 /\ Nat32(base) + offset >= 0
  THEN Nat32(base) + offset
  ELSE BadAddress

\* vr4300_function_table[id](vr4300, iw, rs_reg, rt_reg): fills the EX/DC
\* latch; the result is the machine and whether EX aborts.
vr4300_function_table(id, m, iw, rs_reg, rt_reg) ==
  LET pc == m.pipeline.exdc_latch.common.pc
      target == pc + 4 + 4 * SImm16(iw)
      request(type) ==
        [type |-> type, vaddr |-> EffectiveAddress(rs_reg, SImm16(iw)),
         paddr |-> 0, size |-> 4, two_words |-> FALSE,
         dqm |-> IF type = VR4300_BUS_REQUEST_READ THEN Ones64
                 ELSE <<LimbMax, LimbMax, 0, 0>>,
         postshift |-> 0, data |-> rt_reg]
  IN CASE id = "OR" ->
            [m |-> [m EXCEPT !.pipeline.exdc_latch.result = Or(rs_reg, rt_reg),
                             !.pipeline.exdc_latch.dest = Field5(iw, 11)],
             abort |-> FALSE]
       [] id = "ORI" ->
            [m |-> [m EXCEPT !.pipeline.exdc_latch.result = Or(rs_reg, U64(Imm16(iw))),
                             !.pipeline.exdc_latch.dest = Field5(iw, 16)],
             abort |-> FALSE]
       [] id = "LW" ->
            [m |-> [m EXCEPT !.pipeline.exdc_latch.result = Zero64,
                             !.pipeline.exdc_latch.dest = Field5(iw, 16),
                             !.pipeline.exdc_latch.request =
                                request(VR4300_BUS_REQUEST_READ)],
             abort |-> FALSE]
       [] id = "SW" ->
            [m |-> [m EXCEPT !.pipeline.exdc_latch.request =
                                request(VR4300_BUS_REQUEST_WRITE)],
             abort |-> FALSE]
       [] id = "BEQ" ->
            IF rs_reg # rt_reg THEN [m |-> m, abort |-> FALSE]
            ELSE IF target = pc
              THEN [m |-> [SetCycleType(m, CycleTypeBusyWait) EXCEPT
                             !.trk.lost = @ + 1,
                             !.trk.busyFrom = m.cycles,
                             !.trk.busy = 0],
                    abort |-> TRUE]
              ELSE [m |-> [m EXCEPT !.pipeline.icrf_latch.pc = target],
                    abort |-> FALSE]
       [] OTHER ->
            [m |-> [m EXCEPT !.pipeline.exdc_latch.result =
                                SignExtend(ShiftL(Low32(rt_reg), Field5(iw, 6))),
                             !.pipeline.exdc_latch.dest = Field5(iw, 11)],
             abort |-> FALSE]

----------------------------------------------------------------------------
(* The stage functions.  Each maps the machine to the machine after the    *)
(* stage and to its return value (abort: the driver stops this tick).      *)

\* paddr = vaddr - segment->offset.  The latch's segment covers vaddr, so
\* the difference does not wrap.
PAddr(vaddr, segment) == vaddr - segment.offset

\* The TLB holds no entry: a fetch through a mapped segment ends in abort().
tlb_probe(vaddr, asid) == -1

\* vr4300_icache_probe / vr4300_dcache_probe: is the line of paddr present.
vr4300_icache_probe(m, vaddr, paddr) == ICacheLineOf(paddr) \in m.icache
vr4300_dcache_probe(m, vaddr, paddr) == m.dcache[DCacheLineOf(paddr)].valid

\* line->data + (paddr & 0x1C) of the instruction cache line of paddr.
ICacheWord(m, paddr) ==
  m.mem[8 * ICacheLineOf(paddr) + ((paddr % 32) \div 4)]

\* A cause_data that never marks a delay slot.
BranchDelayNever(opcode) == Zero32

\* (opcode->flags & OPCODE_INFO_BRANCH) ? 0x80000000 : 0x00000000
BranchDelay(opcode) ==
  IF OPCODE_INFO_BRANCH \in opcode.flags THEN <<0, 2^15>> ELSE Zero32

\* Instruction cache stage.
vr4300_ic_stage(m) ==
  LET icrf_latch == m.pipeline.icrf_latch
      rfex_latch == m.pipeline.rfex_latch
      segment == icrf_latch.segment
      pc == icrf_latch.pc
      decode_iw == And(rfex_latch.iw, rfex_latch.iw_mask)
      opcode == vr4300_decode_instruction(decode_iw)
      cause_data == BranchDelay(opcode)
      m1 == [ObsRan(m, "IC", VR4300_FAULT_NONE) EXCEPT
               !.pipeline.rfex_latch.iw = decode_iw,
               !.pipeline.rfex_latch.opcode = opcode,
               !.pipeline.rfex_latch.iw_mask = Ones32,
               !.pipeline.icrf_latch.common =
                  Latch(pc, VR4300_FAULT_NONE, cause_data),
               !.trk.icrf = [TrkNone EXCEPT !.pc = pc, !.tIC = m.cycles,
                                            !.done = <<"IC">>,
                                            !.lost = m.trk.lost,
                                            !.ldis = m.trk.ldis]]
      cp0_status == m.regs[VR4300_CP0_REGISTER_STATUS]
      found == get_segment(pc, cp0_status)
  IN IF OutsideSegment(pc, segment)
     THEN IF found = <<>>
          THEN [m |-> VR4300_IADE([m1 EXCEPT !.obs.lookups = @ + 1]),
                abort |-> TRUE]
          ELSE [m |-> [m1 EXCEPT !.obs.lookups = @ + 1,
                                 !.pipeline.icrf_latch.segment = found[1],
                                 !.pipeline.icrf_latch.pc = pc + 4],
                abort |-> FALSE]
     ELSE [m |-> [m1 EXCEPT !.pipeline.icrf_latch.pc = pc + 4],
           abort |-> FALSE]

\* Register fetch and decode stage.
vr4300_rf_stage(m, in) ==
  LET icrf_latch == m.pipeline.icrf_latch
      segment == icrf_latch.segment
      vaddr == icrf_latch.common.pc
      m1 == [ObsRan(m, "RF", icrf_latch.common.fault) EXCEPT
               !.pipeline.rfex_latch.common = icrf_latch.common,
               !.trk.rfex = [m.trk.icrf EXCEPT !.tRF = m.cycles]]
      paddr == PAddr(vaddr, segment)
  IN IF segment.mapped /\ tlb_probe(vaddr, 0) < 0
     THEN [m |-> [m1 EXCEPT !.halted = TRUE], abort |-> TRUE]
     ELSE IF ~segment.cached \/ ~vr4300_icache_probe(m1, vaddr, paddr)
     THEN [m |-> VR4300_ICB([m1 EXCEPT !.pipeline.rfex_latch.paddr = paddr], in),
           abort |-> TRUE]
     ELSE [m |-> [m1 EXCEPT !.pipeline.rfex_latch.iw = ICacheWord(m1, paddr),
                            !.trk.rfex.done = Append(@, "RF")],
           abort |-> FALSE]

\* { 0, VR4300_REGISTER_CP1_0, 21, 11 } and { 0, 0, VR4300_REGISTER_CP1_0, 0 }
rs_select_lut == <<0, VR4300_REGISTER_CP1_0, 21, 11>>
rt_select_lut == <<0, 0, VR4300_REGISTER_CP1_0, 0>>

\* x & ~mask for a mask of 0 or 1.
ClearBit0(x, mask) == x - mask * (x % 2)

\* The flags EX acts on: without a load in the EX/DC latch, no interlock.
ExFlags(m) ==
  IF m.pipeline.exdc_latch.request.type # VR4300_BUS_REQUEST_READ
  THEN m.pipeline.rfex_latch.opcode.flags \ {OPCODE_INFO_NEEDRS, OPCODE_INFO_NEEDRT}
  ELSE m.pipeline.rfex_latch.opcode.flags

\* The rs and rt register indices EX selects under the given flags.
ExSelect(m, flags) ==
  LET status == Low32(m.regs[VR4300_CP0_REGISTER_STATUS])
      fr == 1 - Bit(status, 26)
      iw == m.pipeline.rfex_latch.iw
      rslutidx == IF OPCODE_INFO_FPU_RS \in flags THEN 1 ELSE 0
      rtlutidx == IF OPCODE_INFO_FPU_RT \in flags THEN 2 ELSE 0
      rs == Field5(iw, rs_select_lut[2 + rslutidx + 1]) + rs_select_lut[rslutidx + 1]
      rt == Field5(iw, 16) + rt_select_lut[rtlutidx + 1]
  IN [rs |-> ClearBit0(rs, AndBits(rslutidx, fr)),
      rt |-> ClearBit0(rt, AndBits(rtlutidx \div 2, fr))]

\* A register file read without the DC/WB result.
ExNoForward(m) == RegWrite(m.regs, VR4300_REGISTER_R0, Zero64)

\* A forwarding that does not pin register zero.
ExForwardUnpinned(m) ==
  RegWrite(m.regs, m.pipeline.dcwb_latch.dest, m.pipeline.dcwb_latch.result)

\* The register file as EX reads it: the DC/WB result planted in its
\* destination slot and register zero pinned to zero.
ExForward(m) ==
  LET dcwb_latch == m.pipeline.dcwb_latch
      planted == RegWrite(m.regs, dcwb_latch.dest, dcwb_latch.result)
  IN RegWrite(planted, VR4300_REGISTER_R0, Zero64)

\* The register file after EX restored the slot it planted the result in.
ExRestore(m) ==
  LET dcwb_latch == m.pipeline.dcwb_latch
      temp == RegRead(m.regs, dcwb_latch.dest)
      planted == RegWrite(m.regs, dcwb_latch.dest, dcwb_latch.result)
      pinned == RegWrite(planted, VR4300_REGISTER_R0, Zero64)
  IN RegWrite(pinned, dcwb_latch.dest, temp)

\* Execution stage.
vr4300_ex_stage(m) ==
  LET rfex_latch == m.pipeline.rfex_latch
      dcwb_latch == m.pipeline.dcwb_latch
      iw == rfex_latch.iw
      flags == ExFlags(m)
      sel == ExSelect(m, flags)
      needs == ExSelect(m, rfex_latch.opcode.flags)
      needrs == IF OPCODE_INFO_NEEDRS \in rfex_latch.opcode.flags
                THEN needs.rs ELSE -1
      needrt == IF OPCODE_INFO_NEEDRT \in rfex_latch.opcode.flags
                THEN needs.rt ELSE -1
      m1 == [ObsRan(m, "EX", rfex_latch.common.fault) EXCEPT
               !.pipeline.exdc_latch.common = rfex_latch.common,
               !.trk.rfex.firstEX = IF @ = -1 THEN m.cycles ELSE @]
      rs_reg == RegRead(ExForward(m1), sel.rs)
      rt_reg == RegRead(ExForward(m1), sel.rt)
      m2 == [m1 EXCEPT
               !.regs = ExRestore(m1),
               !.pipeline.exdc_latch.dest = VR4300_REGISTER_R0,
               !.pipeline.exdc_latch.request.type = VR4300_BUS_REQUEST_NONE]
      r == vr4300_function_table(rfex_latch.opcode.id, m2, iw, rs_reg, rt_reg)
  IN IF \/ (dcwb_latch.dest = sel.rs /\ OPCODE_INFO_NEEDRS \in flags)
        \/ (dcwb_latch.dest = sel.rt /\ OPCODE_INFO_NEEDRT \in flags)
     THEN [m |-> VR4300_LDI(m1), abort |-> TRUE]
     ELSE [m |-> [r.m EXCEPT
                    !.trk.exdc =
                       [m1.trk.rfex EXCEPT
                          !.tEX = m.cycles,
                          !.done = Append(@, "EX"),
                          !.rs = needrs, !.rt = needrt,
                          !.rs_reg = rs_reg, !.rt_reg = rt_reg,
                          !.dest = r.m.pipeline.exdc_latch.dest,
                          !.load = (r.m.pipeline.exdc_latch.request.type
                                       = VR4300_BUS_REQUEST_READ)]],
           abort |-> r.abort]

\* An interrupt condition that reads Cause as it was before the tick's
\* comparison of Count and Compare.
InterruptPendingStale(m) ==
  LET status == Low32(m.regs[VR4300_CP0_REGISTER_STATUS])
      cause == Low32(m.regs[VR4300_CP0_REGISTER_CAUSE])
      before == IF m.obs.compare THEN And(cause, U32(32767)) ELSE cause
  IN /\ And(And(before, status), U32(65280)) # Zero32
     /\ And(status, U32(1)) # Zero32
     /\ And(status, U32(6)) = Zero32

\* An interrupt condition that looks at EXL alone.
InterruptIgnoresERL(m) ==
  LET status == Low32(m.regs[VR4300_CP0_REGISTER_STATUS])
      cause == Low32(m.regs[VR4300_CP0_REGISTER_CAUSE])
  IN /\ And(And(cause, status), U32(65280)) # Zero32
     /\ And(status, U32(1)) # Zero32
     /\ And(status, U32(2)) = Zero32

\* cause & status & 0xFF00, with IE set and EXL, ERL clear.
InterruptPending(m) ==
  LET status == Low32(m.regs[VR4300_CP0_REGISTER_STATUS])
      cause == Low32(m.regs[VR4300_CP0_REGISTER_CAUSE])
  IN /\ And(And(cause, status), U32(65280)) # Zero32
     /\ And(status, U32(1)) # Zero32
     /\ And(status, U32(6)) = Zero32

\* A reset check that gives way to a deliverable interrupt.
ResetUnlessInterrupt(m) ==
  /\ AndBits(m.signals, VR4300_SIGNAL_COLDRESET) # 0
  /\ ~InterruptPending(m)

\* vr4300->signals & VR4300_SIGNAL_COLDRESET
ResetPending(m) == AndBits(m.signals, VR4300_SIGNAL_COLDRESET) # 0

\* The datum a read hit extracts from the line, as an int64_t.
DcReadData(line, paddr, request) ==
  IF ~request.two_words
  THEN LET rshiftamt == (4 - request.size) * 8
           lshiftamt == (paddr % 4) * 8
           word == line.data[(paddr % 16) \div 4]
       IN SignExtend(ShiftRA(ShiftL(word, lshiftamt), rshiftamt))
  ELSE LET rshiftamt == (8 - request.size) * 8
           lshiftamt == (paddr % 8) * 8
           hiword == line.data[2 * ((paddr % 16) \div 8)]
           loword == line.data[2 * ((paddr % 16) \div 8) + 1]
       IN ShiftRA(ShiftL(Join64(hiword, loword), lshiftamt), rshiftamt)

\* A write hit whose 8-byte path merges the payload without swapping its
\* halves.
DcWriteNoSwap(line, paddr, request) ==
  IF request.size > 4
  THEN LET k == 2 * ((paddr % 16) \div 8)
           dword == Join64(line.data[k + 1], line.data[k])
           merged == Or(And(dword, Not(request.dqm)),
                        And(request.data, request.dqm))
       IN [line EXCEPT !.data[k] = Low32(merged), !.data[k + 1] = High32(merged),
                       !.dirty = TRUE]
  ELSE LET k == (paddr % 16) \div 4
           dqm == Low32(request.dqm)
       IN [line EXCEPT !.data[k] = Or(And(line.data[k], Not(dqm)),
                                      And(Low32(request.data), dqm)),
                       !.dirty = TRUE]

\* The line after a write hit.  The 8-byte path reads and writes two words
\* of the line as one uint64_t of the (little-endian) host.
DcWriteLine(line, paddr, request) ==
  IF request.size > 4
  THEN LET k == 2 * ((paddr % 16) \div 8)
           data == request.data
           dqm == request.dqm
           dword == Join64(line.data[k + 1], line.data[k])
           merged == Or(And(dword, Not(dqm)),
                        And(Or(ShiftL(data, 32), ShiftR(data, 32)), dqm))
       IN [line EXCEPT !.data[k] = Low32(merged), !.data[k + 1] = High32(merged),
                       !.dirty = TRUE]
  ELSE LET k == (paddr % 16) \div 4
           data == Low32(request.data)
           dqm == Low32(request.dqm)
           word == line.data[k]
       IN [line EXCEPT !.data[k] = Or(And(word, Not(dqm)), And(data, dqm)),
                       !.dirty = TRUE]

\* Data cache fetch stage.
vr4300_dc_stage(m, in) ==
  LET exdc_latch == m.pipeline.exdc_latch
      request == exdc_latch.request
      vaddr == request.vaddr
      m1 == [ObsRan(m, "DC", exdc_latch.common.fault) EXCEPT
               !.pipeline.dcwb_latch.common = exdc_latch.common,
               !.pipeline.dcwb_latch.result = exdc_latch.result,
               !.pipeline.dcwb_latch.dest = exdc_latch.dest,
               !.trk.dcwb = [m.trk.exdc EXCEPT !.tDC = m.cycles,
                                               !.result = exdc_latch.result]]
      outside == OutsideSegment(vaddr, exdc_latch.segment)
      found == get_segment(vaddr, m.regs[VR4300_CP0_REGISTER_STATUS])
      segment == IF outside THEN found[1] ELSE exdc_latch.segment
      looked == IF outside THEN {"get_segment"} ELSE {}
      probed == looked \cup (IF segment.mapped THEN {"tlb_probe"} ELSE {})
                       \cup (IF segment.cached THEN {"dcache_probe"} ELSE {})
      m2 == [m1 EXCEPT !.pipeline.exdc_latch.segment = segment,
                       !.obs.dc = probed]
      paddr == PAddr(vaddr, segment)
      line == m2.dcache[DCacheLineOf(paddr)]
      result == Or(m2.pipeline.dcwb_latch.result,
                   ShiftL(And(DcReadData(line, paddr, request), request.dqm),
                          request.postshift))
  IN IF ResetPending(m)
     THEN [m |-> VR4300_RST(m1), abort |-> TRUE]
     ELSE IF InterruptPending(m)
     THEN [m |-> VR4300_INTR(m1), abort |-> TRUE]
     ELSE IF request.type = VR4300_BUS_REQUEST_NONE
     THEN [m |-> [m1 EXCEPT !.trk.dcwb.done = Append(@, "DC")], abort |-> FALSE]
     ELSE IF outside /\ found = <<>>
     THEN [m |-> VR4300_DADE([m1 EXCEPT !.obs.dc = looked]), abort |-> TRUE]
     ELSE IF segment.mapped /\ tlb_probe(vaddr, 0) < 0
     THEN [m |-> [m2 EXCEPT !.halted = TRUE], abort |-> TRUE]
     ELSE IF ~segment.cached \/ ~vr4300_dcache_probe(m2, vaddr, paddr)
     THEN [m |-> VR4300_DCM(
                   [m2 EXCEPT !.pipeline.exdc_latch.request.paddr = paddr], in),
           abort |-> TRUE]
     ELSE IF request.type = VR4300_BUS_REQUEST_READ
     THEN [m |-> [m2 EXCEPT !.pipeline.dcwb_latch.result = result,
                            !.obs.dc = @ \cup {"merge"},
                            !.trk.dcwb.done = Append(@, "DC"),
                            !.trk.dcwb.loaded = result,
                            !.trk.dcwb.result = result],
           abort |-> FALSE]
     ELSE [m |-> [m2 EXCEPT !.dcache[DCacheLineOf(paddr)] =
                               DcWriteLine(line, paddr, request),
                            !.trk.dcwb.done = Append(@, "DC"),
                            !.obs.dc = @ \cup {"write"}],
           abort |-> FALSE]

\* A writeback that does not re-zero register zero.
WbUnpinned(m) ==
  LET dcwb_latch == m.pipeline.dcwb_latch
  IN [m |-> [ObsRan(m, "WB", dcwb_latch.common.fault) EXCEPT
               !.regs = RegWrite(m.regs, dcwb_latch.dest, dcwb_latch.result),
               !.trk.prev = m.trk.retired,
               !.trk.retired = [m.trk.dcwb EXCEPT !.tWB = m.cycles,
                                                  !.done = Append(@, "WB"),
                                                  !.lostWB = m.trk.lost,
                                                  !.ldisWB = m.trk.ldis]],
      abort |-> FALSE]

\* Writeback stage.
vr4300_wb_stage(m) ==
  LET dcwb_latch == m.pipeline.dcwb_latch
      written == RegWrite(m.regs, dcwb_latch.dest, dcwb_latch.result)
  IN [m |-> [ObsRan(m, "WB", dcwb_latch.common.fault) EXCEPT
               !.regs = RegWrite(written, VR4300_REGISTER_R0, Zero64),
               !.trk.prev = m.trk.retired,
               !.trk.retired = [m.trk.dcwb EXCEPT !.tWB = m.cycles,
                                                  !.done = Append(@, "WB"),
                                                  !.lostWB = m.trk.lost,
                                                  !.ldisWB = m.trk.ldis]],
      abort |-> FALSE]

----------------------------------------------------------------------------
(* The slow path: the chain of resumable entry points.                     *)

\* A slow-path tail that leaves the cycle type as it is.
SlowIcKeepsType(m) == vr4300_ic_stage(m).m

\* Starts from IC stage.
vr4300_cycle_slow_ic(m) ==
  Then(vr4300_ic_stage(m), LAMBDA r :
    IF r.abort THEN r.m ELSE SetCycleType(r.m, CycleTypeWB))

\* Starts from RF stage.
vr4300_cycle_slow_rf(m, in) ==
  LET icrf_latch == m.pipeline.icrf_latch
  IN Then(IF icrf_latch.common.fault = VR4300_FAULT_NONE
          THEN vr4300_rf_stage(m, in)
          ELSE [m |-> [ObsCopied(m, "RF") EXCEPT
                         !.pipeline.rfex_latch.common = icrf_latch.common,
                         !.trk.rfex = [m.trk.icrf EXCEPT !.tRF = m.cycles]],
                abort |-> FALSE],
          LAMBDA r : IF r.abort THEN r.m ELSE vr4300_cycle_slow_ic(r.m))

\* Starts from EX stage.
vr4300_cycle_slow_ex(m, in) ==
  LET rfex_latch == m.pipeline.rfex_latch
  IN Then(IF rfex_latch.common.fault = VR4300_FAULT_NONE
          THEN vr4300_ex_stage(m)
          ELSE [m |-> [ObsCopied(m, "EX") EXCEPT
                         !.pipeline.exdc_latch.common = rfex_latch.common,
                         !.trk.exdc = [m.trk.rfex EXCEPT !.tEX = m.cycles]],
                abort |-> FALSE],
          LAMBDA r : IF r.abort THEN r.m ELSE vr4300_cycle_slow_rf(r.m, in))

\* A slow path that runs DC whatever the fault tag of the EX/DC latch.
SlowDcUnchecked(m, in) ==
  Then(vr4300_dc_stage(m, in), LAMBDA r :
    IF r.abort THEN r.m ELSE vr4300_cycle_slow_ex(r.m, in))

\* Starts from DC stage.
vr4300_cycle_slow_dc(m, in) ==
  LET exdc_latch == m.pipeline.exdc_latch
  IN Then(IF exdc_latch.common.fault = VR4300_FAULT_NONE
          THEN vr4300_dc_stage(m, in)
          ELSE [m |-> [ObsCopied(m, "DC") EXCEPT
                         !.pipeline.dcwb_latch.common = exdc_latch.common,
                         !.pipeline.dcwb_latch.result = Zero64,
                         !.pipeline.dcwb_latch.dest = 0,
                         !.trk.dcwb = [m.trk.exdc EXCEPT !.tDC = m.cycles]],
                abort |-> FALSE],
          LAMBDA r : IF r.abort THEN r.m ELSE vr4300_cycle_slow_ex(r.m, in))

\* A history that elapses one tick early.
HistoryTooShort(exception_history) == exception_history > 3

\* A history that elapses one tick late.
HistoryTooLong(exception_history) == exception_history > 5

\* exception_history++ > 4
HistoryElapsed(exception_history) == exception_history > 4

\* Starts from WB stage; counts the tick in the exception history.
vr4300_cycle_slow_wb(m, in) ==
  Then([m EXCEPT
          !.pipeline.fault_present =
             IF HistoryElapsed(m.pipeline.exception_history) THEN FALSE ELSE @,
          !.pipeline.exception_history = @ + 1],
       LAMBDA m1 :
         Then(IF m1.pipeline.dcwb_latch.common.fault = VR4300_FAULT_NONE
              THEN vr4300_wb_stage(m1)
              ELSE [m |-> m1, abort |-> FALSE],
              LAMBDA r :
                IF r.abort THEN r.m ELSE vr4300_cycle_slow_dc(r.m, in)))

\* A busy wait that fetches while it waits.
BusyWaitFetches(m) ==
  IF InterruptPending(m) THEN VR4300_INTR(m)
  ELSE vr4300_cycle_slow_ic([m EXCEPT !.trk.busy = @ + 1])

\* Special-cased busy wait handler.
vr4300_cycle_busywait(m) ==
  IF InterruptPending(m) THEN VR4300_INTR(m) ELSE [m EXCEPT !.trk.busy = @ + 1]

\* The five stages front to back.
FrontToBack(m, in) ==
  Then(vr4300_ic_stage(m), LAMBDA ic :
    IF ic.abort THEN ic.m ELSE
    Then(vr4300_rf_stage(ic.m, in), LAMBDA rf :
      IF rf.abort THEN rf.m ELSE
      Then(vr4300_ex_stage(rf.m), LAMBDA ex :
        IF ex.abort THEN ex.m ELSE
        Then(vr4300_dc_stage(ex.m, in), LAMBDA dc :
          IF dc.abort THEN dc.m ELSE
          Then(vr4300_wb_stage(dc.m), LAMBDA wb : wb.m)))))

\* The fast path: the five stages back to front, stopping at an abort.
FastPath(m, in) ==
  Then(vr4300_wb_stage(m), LAMBDA wb :
    IF wb.abort THEN wb.m ELSE
    Then(vr4300_dc_stage(wb.m, in), LAMBDA dc :
      IF dc.abort THEN dc.m ELSE
      Then(vr4300_ex_stage(dc.m), LAMBDA ex :
        IF ex.abort THEN ex.m ELSE
        Then(vr4300_rf_stage(ex.m, in), LAMBDA rf :
          IF rf.abort THEN rf.m ELSE
          Then(vr4300_ic_stage(rf.m), LAMBDA ic : ic.m)))))

\* Counters whose Count advances on the even cycles.
IncrementOnEven(m) ==
  LET c == m.cycles + 1
      count == Add(m.regs[VR4300_CP0_REGISTER_COUNT], (c + 1) % 2)
      fires == Low32(count) = Low32(m.regs[VR4300_CP0_REGISTER_COMPARE])
  IN [m EXCEPT !.cycles = c,
               !.regs[VR4300_CP0_REGISTER_COUNT] = count,
               !.regs[VR4300_CP0_REGISTER_CAUSE] =
                  IF fires THEN Or(@, U64(2^15)) ELSE @,
               !.obs.compare = fires]

\* Counters that compare all 64 bits of Count and Compare.
IncrementCompare64(m) ==
  LET c == m.cycles + 1
      count == Add(m.regs[VR4300_CP0_REGISTER_COUNT], c % 2)
      fires == count = m.regs[VR4300_CP0_REGISTER_COMPARE]
  IN [m EXCEPT !.cycles = c,
               !.regs[VR4300_CP0_REGISTER_COUNT] = count,
               !.regs[VR4300_CP0_REGISTER_CAUSE] =
                  IF fires THEN Or(@, U64(2^15)) ELSE @,
               !.obs.compare = fires]

\* Count += ++cycles & 1, and the comparison with Compare.
IncrementCounters(m) ==
  LET c == m.cycles + 1
      count == Add(m.regs[VR4300_CP0_REGISTER_COUNT], c % 2)
      fires == Low32(count) = Low32(m.regs[VR4300_CP0_REGISTER_COMPARE])
  IN [m EXCEPT !.cycles = c,
               !.regs[VR4300_CP0_REGISTER_COUNT] = count,
               !.regs[VR4300_CP0_REGISTER_CAUSE] =
                  IF fires THEN Or(@, U64(2^15)) ELSE @,
               !.obs.compare = fires]

\* The pipeline cycle type, as the index into pipeline_function_lut.
CycleType(m) == Nat32(Low32(m.regs[PIPELINE_CYCLE_TYPE]))

\* Which way vr4300_cycle goes after the counters.
Dispatch(m) ==
  IF m.pipeline.cycles_to_stall > 0 THEN "stall"
  ELSE IF (IF m.pipeline.fault_present THEN 1 ELSE 0) + CycleType(m) # 0
  THEN "slow"
  ELSE "fast"

\* A head of vr4300_cycle that chooses the branch before the counters.
CountersLate(m) ==
  Then([m EXCEPT !.obs = [ObsNone EXCEPT !.checked = m.cycles,
                                         !.dispatch = Dispatch(m),
                                         !.type = CycleType(m)]],
       IncrementCounters)

\* The head of vr4300_cycle: the counters, then the choice of the branch.
Counters(m) ==
  Then(IncrementCounters([m EXCEPT !.obs = ObsNone]), LAMBDA m1 :
    [m1 EXCEPT !.obs.checked = m1.cycles,
               !.obs.dispatch = Dispatch(m1),
               !.obs.type = CycleType(m1),
               !.trk.wbTicks =
                  IF Dispatch(m1) = "slow" /\ CycleType(m1) = CycleTypeWB
                  THEN @ + 1 ELSE @])

\* A stall branch that lets the writeback stage run.
StalledWritesBack(m) ==
  vr4300_wb_stage([m EXCEPT !.pipeline.cycles_to_stall = @ - 1]).m

\* The stall branch of vr4300_cycle.
Stalled(m) == [m EXCEPT !.pipeline.cycles_to_stall = @ - 1]

\* An initialization that seeds the IC/RF latch alone.
PipelineInitSeedsOne(p, default_segment) ==
  [p EXCEPT !.icrf_latch.segment = default_segment]

\* Initializes the pipeline with default values.
vr4300_pipeline_init(p, default_segment) ==
  [p EXCEPT !.icrf_latch.segment = default_segment,
            !.exdc_latch.segment = default_segment]

----------------------------------------------------------------------------
(* The initial states and the next-state relation.                         *)

\* A load reads this word (it also decodes as ori r0, r0, 3).
DataWord == IW_ORI_R0
DataWordAt == 6

\* Status: IM7 | IE, the same with EXL set, IM7 with IE clear, and IE with
\* IM7 clear.
StatusSet == {U64(2^15 + 1), U64(2^15 + 3), U64(2^15), U64(1)}
\* Count and Compare: Compare = Count + 2; Compare = 2^32 + 4, with the low
\* 32 bits of Count + 4; Count = 2^32 - 1, whose low 32 bits wrap within
\* the run; Compare = Count + 1, reached in the first tick.
CountCompareSet ==
  {<<Zero64, U64(2)>>, <<Zero64, <<4, 0, 1, 0>> >>,
   <<<<LimbMax, LimbMax, 0, 0>>, U64(2)>>, <<Zero64, U64(1)>>}

PipelineZero ==
  [icrf_latch |-> [common |-> LatchZero, pc |-> 0, segment |-> SegEmpty],
   rfex_latch |-> [common |-> LatchZero, iw |-> Zero32, iw_mask |-> Zero32,
                   opcode |-> vr4300_decode_instruction(Zero32), paddr |-> 0],
   exdc_latch |-> [common |-> LatchZero, dest |-> 0, result |-> Zero64,
                   segment |-> SegEmpty, request |-> RequestZero],
   dcwb_latch |-> [common |-> LatchZero, dest |-> 0, result |-> Zero64],
   cycles_to_stall |-> 0, fault_present |-> FALSE, exception_history |-> 0]

TrkZero ==
  [icrf |-> TrkNone, rfex |-> TrkNone, exdc |-> TrkNone, dcwb |-> TrkNone,
   retired |-> TrkNone, prev |-> TrkNone, lost |-> 0, ldis |-> 0, faults |-> 0,
   wbTicks |-> 0, busyFrom |-> 0, busy |-> 0,
   test |-> [phase |-> "none"]]

\* Memory: the program at address 0, the data word, no-ops elsewhere.
MemoryOf(prog) ==
  [w \in MemWords |->
     IF w < ProgLen THEN prog[w]
     ELSE IF w = DataWordAt THEN DataWord ELSE IW_NOP]

Init ==
  /\ \E status \in StatusSet, cc \in CountCompareSet :
       regs = [i \in RegIdx |->
                 CASE i = VR4300_CP0_REGISTER_STATUS -> status
                   [] i = VR4300_CP0_REGISTER_COUNT -> cc[1]
                   [] i = VR4300_CP0_REGISTER_COMPARE -> cc[2]
                   [] OTHER -> Zero64]
  /\ cycles = 0
  /\ signals \in {0, VR4300_SIGNAL_COLDRESET}
  /\ pipeline = vr4300_pipeline_init(PipelineZero, get_default_segment)
  /\ \E prog \in [0..(ProgLen - 1) -> InstrSet] : mem = MemoryOf(prog)
  /\ \E warm \in BOOLEAN :
       /\ icache = IF warm THEN {0} ELSE {}
       /\ dcache = [l \in DCacheLines |->
                      [valid |-> warm, dirty |-> FALSE,
                       data |-> [w \in 0..3 |-> mem[4 * l + w]]]]
  /\ halted = FALSE
  /\ obs = ObsNone
  /\ trk = TrkZero

\* The machine after the step.
Becomes(m) ==
  /\ regs' = m.regs
  /\ cycles' = m.cycles
  /\ signals' = m.signals
  /\ pipeline' = m.pipeline
  /\ icache' = m.icache
  /\ dcache' = m.dcache
  /\ mem' = m.mem
  /\ halted' = m.halted
  /\ obs' = m.obs
  /\ trk' = m.trk

\* What the interlock handlers draw from outside: the stall they ask for,
\* and whether a data cache miss needs a block fetch.
Inputs == [delay : 0..MaxStall, block : BOOLEAN]
InputNone == [delay |-> 0, block |-> FALSE]

\* One call of vr4300_cycle that takes the branch F.  Only VR4300_ICB and
\* VR4300_DCM read the inputs.
Tick(F(_, _)) ==
  /\ cycles < MaxCycles
  /\ ~halted
  /\ \E m0 \in {Counters(Machine)} : \E m \in {F(m0, InputNone)} :
       IF m.obs.raised \in {"ICB", "DCM"}
       THEN \E in \in Inputs : \E n \in {F(m0, in)} : Becomes(n)
       ELSE Becomes(m)

\* vr4300_cycle by the branch it takes: the stall, the fast path, and the
\* entries of pipeline_function_lut.
TickStall ==
  /\ Dispatch(Machine) = "stall"
  /\ Tick(LAMBDA m, in : Stalled(m))
TickFast ==
  /\ Dispatch(Machine) = "fast"
  /\ Tick(FastPath)
TickSlowWB ==
  /\ Dispatch(Machine) = "slow" /\ CycleType(Machine) = CycleTypeWB
  /\ Tick(vr4300_cycle_slow_wb)
TickSlowDC ==
  /\ Dispatch(Machine) = "slow" /\ CycleType(Machine) = CycleTypeDC
  /\ Tick(vr4300_cycle_slow_dc)
TickSlowEX ==
  /\ Dispatch(Machine) = "slow" /\ CycleType(Machine) = CycleTypeEX
  /\ Tick(vr4300_cycle_slow_ex)
TickSlowRF ==
  /\ Dispatch(Machine) = "slow" /\ CycleType(Machine) = CycleTypeRF
  /\ Tick(vr4300_cycle_slow_rf)
TickSlowIC ==
  /\ Dispatch(Machine) = "slow" /\ CycleType(Machine) = CycleTypeIC
  /\ Tick(LAMBDA m, in : vr4300_cycle_slow_ic(m))
TickBusyWait ==
  /\ Dispatch(Machine) = "slow" /\ CycleType(Machine) = CycleTypeBusyWait
  /\ Tick(LAMBDA m, in : vr4300_cycle_busywait(m))
TickDCB ==
  /\ Dispatch(Machine) = "slow" /\ CycleType(Machine) = CycleTypeDCB
  /\ Tick(LAMBDA m, in : VR4300_DCB(m))

Next ==
  \/ TickStall
  \/ TickFast
  \/ TickSlowWB
  \/ TickSlowDC
  \/ TickSlowEX
  \/ TickSlowRF
  \/ TickSlowIC
  \/ TickBusyWait
  \/ TickDCB

Spec == Init /\ [][Next]_vars

----------------------------------------------------------------------------
(* The claims.                                                             *)

\* The stage names of the last tick.
Ran == {obs.ran[i] : i \in DOMAIN obs.ran}
Copied == {obs.copied[i] : i \in DOMAIN obs.copied}

\* C1: after every call of vr4300_cycle, on whatever branch, register zero
\* of the register file holds 0, whatever destination and result the DC/WB
\* latch carried (destination 0 with a non-zero result included).
C1_RegisterZero == regs[VR4300_REGISTER_R0] = Zero64

\* The tick just retired an instruction that writes a non-zero result to
\* register zero.
C1_Witness ==
  /\ "WB" \in Ran
  /\ trk.retired.tWB = cycles
  /\ trk.retired.tEX > 0
  /\ trk.retired.dest = VR4300_REGISTER_R0
  /\ trk.retired.result # Zero64
  /\ regs[VR4300_REGISTER_R0] = Zero64

\* C6: every call of vr4300_cycle adds exactly one to the cycle counter, and
\* the stall check, the stages and the slow-path handlers of that call all
\* come after the increment: the choice of the branch and every stage that
\* ran read the cycle counter as the tick left it.
C6_CycleCounter ==
  [][/\ cycles' = cycles + 1
     /\ obs'.checked = cycles'
     /\ "WB" \in Ran' => trk'.retired.tWB = cycles'
     /\ "DC" \in Ran' => trk'.dcwb.tDC = cycles'
     /\ "EX" \in Ran' => \/ trk'.exdc.tEX = cycles'
                         \/ trk'.rfex.firstEX = cycles'
                         \/ obs'.raised = "LDI"
     /\ "RF" \in Ran' => trk'.rfex.tRF = cycles'
     /\ "IC" \in Ran' => trk'.icrf.tIC = cycles']_vars

\* A busy-wait tick.
C6_Witness ==
  /\ obs.dispatch = "slow"
  /\ obs.type = CycleTypeBusyWait
  /\ obs.checked = cycles
  /\ cycles > 3

\* C7: Count advances by one every two ticks, on the ticks whose incremented
\* cycle counter is odd: after n ticks it is the initial Count plus the
\* number of odd values in 1..n, stalled ticks included.
C7_CountEveryTwoCycles ==
  \E cc \in CountCompareSet :
     /\ regs[VR4300_CP0_REGISTER_COMPARE] = cc[2]
     /\ regs[VR4300_CP0_REGISTER_COUNT] = Add(cc[1], (cycles + 1) \div 2)

\* Six ticks, one of them stalled: Count has advanced by three.
C7_Witness ==
  /\ cycles = 6
  /\ regs[VR4300_CP0_REGISTER_COUNT] = U64(3)
  /\ obs.dispatch = "stall"

\* Bit 15 of Cause, the compare interrupt.
CauseIP7(r) == Bit(r[VR4300_CP0_REGISTER_CAUSE], 15) = 1
\* The low 32 bits of Count equal those of Compare.
CountIsCompare(r) ==
  Low32(r[VR4300_CP0_REGISTER_COUNT]) = Low32(r[VR4300_CP0_REGISTER_COMPARE])

\* C8: a tick leaves bit 15 of Cause set exactly when it was set before or
\* the low 32 bits of Count, after the tick's update, equal the low 32 bits
\* of Compare; the other bits of Cause are left alone.
C8_CompareSetsCause ==
  [][/\ CauseIP7(regs') <=> (CauseIP7(regs) \/ CountIsCompare(regs'))
     /\ regs'[VR4300_CP0_REGISTER_CAUSE]
           \in {regs[VR4300_CP0_REGISTER_CAUSE],
                Or(regs[VR4300_CP0_REGISTER_CAUSE], U64(2^15))}]_vars

\* The comparison fired in a stalled tick, on the low 32 bits only.
C8_Witness ==
  /\ obs.dispatch = "stall"
  /\ CountIsCompare(regs)
  /\ regs[VR4300_CP0_REGISTER_COUNT] # regs[VR4300_CP0_REGISTER_COMPARE]
  /\ cycles % 2 = 1
  /\ CauseIP7(regs)

Stamped(i) == i.tIC > 0

\* C2: the stages run back to front, so an instruction stamped by IC in
\* tick t is handled by RF no earlier than t + 1, by EX no earlier than
\* t + 2, by DC no earlier than t + 3 and by WB no earlier than t + 4, and
\* by no two stages in one tick; with no abort in between, WB is at t + 4
\* exactly (five ticks, counted inclusively).
C2_OneStagePerTick ==
  /\ Stamped(trk.rfex) => trk.rfex.tRF >= trk.rfex.tIC + 1
  /\ Stamped(trk.exdc) =>
       /\ trk.exdc.tEX >= trk.exdc.tIC + 2
       /\ trk.exdc.tEX > trk.exdc.tRF
  /\ Stamped(trk.dcwb) =>
       /\ trk.dcwb.tDC >= trk.dcwb.tIC + 3
       /\ trk.dcwb.tDC > trk.dcwb.tEX
  /\ Stamped(trk.retired) =>
       /\ trk.retired.tWB >= trk.retired.tIC + 4
       /\ trk.retired.tWB > trk.retired.tDC
       /\ (trk.retired.lostWB = trk.retired.lost
             /\ trk.retired.ldisWB = trk.retired.ldis)
            => trk.retired.tWB = trk.retired.tIC + 4

\* An instruction that writes a register retired five ticks after IC
\* stamped it, a second one behind it.
C2_Witness ==
  /\ Stamped(trk.retired)
  /\ Stamped(trk.prev)
  /\ trk.retired.dest # VR4300_REGISTER_R0
  /\ trk.retired.tWB = trk.retired.tIC + 4
  /\ trk.retired.tWB = cycles

\* The last two instructions retired are a load and the instruction next
\* to it, with no abort but load-delay interlocks since IC stamped the load.
RetiredPair ==
  /\ Stamped(trk.prev)
  /\ Stamped(trk.retired)
  /\ trk.retired.pc = trk.prev.pc + 4
  /\ trk.retired.lostWB = trk.prev.lost
\* The second of them requires the register the first one loads.
LoadUse ==
  /\ trk.prev.load
  /\ trk.prev.dest \in {trk.retired.rs, trk.retired.rt}

\* C3: a load followed at once by an instruction that requires its
\* destination costs one load-delay interlock and one tick: the consumer
\* retires seven ticks after IC stamped the load (six without the
\* dependency), counted inclusively, and executes with the loaded value.
C3_LoadDelayInterlock ==
  RetiredPair =>
    IF LoadUse
    THEN /\ trk.retired.nLDI = 1
         /\ trk.retired.ldisWB = trk.prev.ldis + 1
         /\ trk.retired.tWB = trk.prev.tIC + 6
         /\ trk.retired.rs = trk.prev.dest => trk.retired.rs_reg = trk.prev.loaded
         /\ trk.retired.rt = trk.prev.dest => trk.retired.rt_reg = trk.prev.loaded
    ELSE trk.retired.ldisWB = trk.prev.ldis =>
           /\ trk.retired.nLDI = 0
           /\ trk.retired.tWB = trk.prev.tIC + 5

\* A consumer has retired behind its load, having read a non-zero loaded
\* value.
C3_Witness ==
  /\ RetiredPair
  /\ LoadUse
  /\ trk.retired.tWB = cycles
  /\ trk.retired.tWB = trk.prev.tIC + 6
  /\ trk.prev.loaded # Zero64
  /\ trk.retired.rs_reg = trk.prev.loaded

\* The fault tag of a C-latch is set.
Tagged(latch) == latch.common.fault # VR4300_FAULT_NONE
\* The stages the last tick handled, by running or by copying.
Handled == Ran \cup Copied
\* The general purpose and floating point registers.
WritableRegs == RegIdx \cap (VR4300_REGISTER_R0 .. VR4300_REGISTER_CP1_0)

\* C4 (as amended): no stage function runs on a latch whose fault tag is
\* set.  A tick whose slow path passes the stage of such a latch copies the
\* C-latch, as the tick found it, to the next latch: one stage, never two.
\* A tick that finds the tag in the DC/WB latch skips WB and leaves the
\* register file as it was.
C4_DeadInstruction ==
  [][/\ ~obs'.dead
     /\ "DC" \in Copied' =>
          Tagged(pipeline.exdc_latch)
            /\ pipeline'.dcwb_latch.common = pipeline.exdc_latch.common
     /\ "EX" \in Copied' =>
          Tagged(pipeline.rfex_latch)
            /\ pipeline'.exdc_latch.common = pipeline.rfex_latch.common
     /\ "RF" \in Copied' =>
          Tagged(pipeline.icrf_latch)
            /\ pipeline'.rfex_latch.common = pipeline.icrf_latch.common
     /\ (Tagged(pipeline.exdc_latch) /\ obs'.dispatch = "slow"
           /\ obs'.type <= CycleTypeDC) => "DC" \in Copied'
     /\ (Tagged(pipeline.rfex_latch) /\ obs'.dispatch = "slow"
           /\ obs'.type <= CycleTypeEX /\ Handled' \cap {"RF", "IC"} # {})
          => "EX" \in Copied'
     /\ (Tagged(pipeline.icrf_latch) /\ obs'.dispatch = "slow"
           /\ obs'.type <= CycleTypeRF /\ "IC" \in Handled')
          => "RF" \in Copied'
     /\ Tagged(pipeline.dcwb_latch) =>
          /\ "WB" \notin Ran'
          /\ \A i \in WritableRegs : regs'[i] = regs[i]]_vars

\* A slow-path tick copied a fault tag into the DC/WB latch, and the tick
\* before it had copied the tag into the EX/DC latch.
C4_Witness ==
  /\ "DC" \in Copied
  /\ "WB" \notin Ran
  /\ Tagged(pipeline.dcwb_latch)
  /\ trk.dcwb.tDC = trk.dcwb.tEX + 1
  /\ trk.dcwb.tEX = trk.dcwb.tRF + 1
  /\ Stamped(trk.dcwb)

\* C4 as stated: a fault tag moves to the next latch in every tick.
C4_AsStated ==
  [][/\ ~obs'.dead
     /\ Tagged(pipeline.exdc_latch) => "DC" \in Copied'
     /\ Tagged(pipeline.rfex_latch) => "EX" \in Copied'
     /\ Tagged(pipeline.icrf_latch) => "RF" \in Copied']_vars

\* The true faults.
TrueFaults == {"IADE", "DADE", "INTR", "RST"}

\* C5: after a fault, fault_present stays set through the first five
\* slow-path ticks that start at WB and is cleared by the sixth; a seventh
\* never comes, and a fast-path tick after a fault has six behind it.
C5_FastPathReengaged ==
  /\ trk.wbTicks <= 6
  /\ trk.faults = 0 => (trk.wbTicks = 0 /\ ~pipeline.fault_present)
  /\ trk.faults > 0 =>
       /\ pipeline.fault_present <=> trk.wbTicks < 6
       /\ pipeline.exception_history = trk.wbTicks
  /\ (obs.dispatch = "fast" /\ trk.faults > 0 /\ obs.raised \notin TrueFaults)
       => trk.wbTicks = 6

\* The tick after the sixth went through the fast path and ran WB.
C5_Witness ==
  /\ obs.dispatch = "fast"
  /\ "WB" \in Ran
  /\ trk.faults > 0
  /\ trk.wbTicks = 6
  /\ ~pipeline.fault_present

\* Status lets the compare interrupt through: IM7 and IE set, EXL and ERL
\* clear.
CompareEnabled(r) ==
  LET status == Low32(r[VR4300_CP0_REGISTER_STATUS])
  IN /\ Bit(status, 15) = 1
     /\ Bit(status, 0) = 1
     /\ And(status, U32(6)) = Zero32
\* The tick's comparison set bit 15 of Cause.
CompareFired == ~CauseIP7(regs) /\ CauseIP7(regs')

\* C9 (as amended): the counters are updated before the stages run, so the
\* DC stage of tick t sees the comparison of tick t: when it runs with the
\* interrupt enabled and no cold reset pending, it raises the interrupt in
\* tick t; and an interrupt DC raises is one Cause holds after the tick's
\* comparison.
C9_SameTickInterrupt ==
  [][/\ (CompareFired /\ "DC" \in Ran' /\ CompareEnabled(regs)
           /\ AndBits(signals, VR4300_SIGNAL_COLDRESET) = 0)
          => obs'.raised = "INTR"
     /\ ("DC" \in Ran' /\ obs'.raised = "INTR") => CauseIP7(regs')]_vars

\* DC raised the interrupt in the tick in which Count reached Compare.
C9_Witness ==
  /\ "DC" \in Ran
  /\ obs.raised = "INTR"
  /\ CountIsCompare(regs)
  /\ cycles % 2 = 1
  /\ trk.faults = 1

\* C9 as stated: the DC stage of the tick in which the comparison fires
\* raises no interrupt.
C9_AsStated ==
  [][~(CompareFired /\ "DC" \in Ran' /\ obs'.raised = "INTR")]_vars

\* Some interrupt is pending in cause and let through by the mask in status
\* (bits 8..15), IE (bit 0) is set, EXL (bit 1) and ERL (bit 2) are clear.
Deliverable(status, cause) ==
  /\ \E k \in 8..15 : Bit(cause, k) = 1 /\ Bit(status, k) = 1
  /\ Bit(status, 0) = 1
  /\ Bit(status, 1) = 0
  /\ Bit(status, 2) = 0

\* C11: a tick in which DC runs with no cold reset signal raises the
\* interrupt fault and stops there exactly when Cause & Status & 0xFF00 is
\* non-zero, IE is set and EXL and ERL are clear (Status as the tick found
\* it, Cause after the tick's comparison); and a busy-wait tick raises the
\* interrupt fault under exactly the same condition.
C11_InterruptCondition ==
  [][/\ ("DC" \in Ran' /\ AndBits(signals, VR4300_SIGNAL_COLDRESET) = 0) =>
          /\ obs'.raised = "INTR" <=>
                Deliverable(regs[VR4300_CP0_REGISTER_STATUS],
                            regs'[VR4300_CP0_REGISTER_CAUSE])
          /\ obs'.raised = "INTR" => Ran' \cap {"EX", "RF", "IC"} = {}
     /\ (obs'.dispatch = "slow" /\ obs'.type = CycleTypeBusyWait) =>
          (obs'.raised = "INTR" <=>
             Deliverable(regs[VR4300_CP0_REGISTER_STATUS],
                         regs'[VR4300_CP0_REGISTER_CAUSE]))]_vars

\* The busy wait was ended by the compare interrupt.
C11_Witness ==
  /\ obs.dispatch = "slow"
  /\ obs.type = CycleTypeBusyWait
  /\ obs.raised = "INTR"
  /\ pipeline.fault_present

\* The pipeline cycle type selects the busy-wait entry.
BusyWaiting(r) == r[PIPELINE_CYCLE_TYPE] = U64(CycleTypeBusyWait)

\* C12: a tick that finds the busy-wait cycle type and no deliverable
\* interrupt does no pipeline work: the pipeline object (the four latches,
\* the PC, fault_present), the caches and every register but Count and bit
\* 15 of Cause are as before, the cycle type still selects the busy wait
\* and the cycle counter has advanced by one; so after N such ticks the
\* cycle counter is N past the tick that entered the busy wait.
C12_BusyWaitFrame ==
  /\ [](BusyWaiting(regs) => cycles = trk.busyFrom + trk.busy)
  /\ [][(BusyWaiting(regs) /\ pipeline.cycles_to_stall = 0
           /\ ~Deliverable(regs[VR4300_CP0_REGISTER_STATUS],
                           regs'[VR4300_CP0_REGISTER_CAUSE])) =>
          /\ pipeline' = pipeline
          /\ \A i \in RegIdx \ {VR4300_CP0_REGISTER_COUNT, VR4300_CP0_REGISTER_CAUSE} :
                regs'[i] = regs[i]
          /\ regs'[VR4300_CP0_REGISTER_CAUSE]
                \in {regs[VR4300_CP0_REGISTER_CAUSE],
                     Or(regs[VR4300_CP0_REGISTER_CAUSE], U64(2^15))}
          /\ BusyWaiting(regs')
          /\ cycles' = cycles + 1
          /\ trk'.busy = trk.busy + 1
          /\ obs'.ran = <<>> /\ obs'.copied = <<>>
          /\ UNCHANGED <<icache, dcache, mem, signals, halted>>]_vars

\* The sixth tick of a busy wait, with the compare interrupt pending and
\* masked by EXL.
C12_Witness ==
  /\ BusyWaiting(regs)
  /\ trk.busy = 6
  /\ cycles = trk.busyFrom + 6
  /\ CauseIP7(regs)
  /\ obs.type = CycleTypeBusyWait

\* Bit 31 of the cause data of a C-latch: the instruction is in a branch
\* delay slot.
InDelaySlot(latch) == Bit(latch.common.cause_data, 31) = 1

\* C13: a run of IC leaves the RF/EX latch with the masked instruction word
\* and its opcode record, and stamps the IC/RF C-latch with the branch delay
\* bit set exactly when that opcode is a branch (a word masked to a no-op
\* is none) and with no other bit of the cause data; the instruction it
\* stamps behind a branch that RF fetched in the same tick is the one at
\* the branch's pc + 4, on the fast path and on every slow-path entry.
C13_BranchDelayBit ==
  [][("IC" \in Ran') =>
       /\ InDelaySlot(pipeline'.icrf_latch)
            <=> OPCODE_INFO_BRANCH \in pipeline'.rfex_latch.opcode.flags
       /\ pipeline'.icrf_latch.common.cause_data \in {Zero32, <<0, 2^15>>}
       /\ pipeline'.rfex_latch.opcode
            = vr4300_decode_instruction(pipeline'.rfex_latch.iw)
       /\ pipeline.rfex_latch.iw_mask = Zero32
            => (pipeline'.rfex_latch.iw = Zero32
                  /\ ~InDelaySlot(pipeline'.icrf_latch))
       /\ pipeline'.rfex_latch.iw_mask = Ones32
       /\ ("RF" \in Ran' /\ InDelaySlot(pipeline'.icrf_latch))
            => /\ pipeline'.icrf_latch.common.pc
                    = pipeline'.rfex_latch.common.pc + 4
               /\ pipeline'.rfex_latch.iw = IW_BEQ_SELF]_vars

\* IC stamped a delay slot in a tick resumed at RF, after an instruction
\* cache miss and a stalled tick had come between the branch and its slot.
C13_Witness ==
  /\ obs.dispatch = "slow"
  /\ obs.type = CycleTypeRF
  /\ "IC" \in Ran
  /\ InDelaySlot(pipeline.icrf_latch)
  /\ pipeline.rfex_latch.iw = IW_BEQ_SELF
  /\ trk.icrf.tIC >= trk.rfex.tIC + 3

\* The value EX owes the opcode function for source register x, given the
\* DC/WB latch and the register file as EX finds them.
Operand(x, dcwb_latch, r) ==
  IF x = VR4300_REGISTER_R0 THEN Zero64
  ELSE IF x = dcwb_latch.dest THEN dcwb_latch.result
  ELSE RegRead(r, x)

\* The register file after the tick's writeback, if WB ran.
WrittenBack(r, dcwb_latch, wb) ==
  [i \in WritableRegs |->
     IF ~wb THEN r[i]
     ELSE IF i = VR4300_REGISTER_R0 THEN Zero64
     ELSE IF i = dcwb_latch.dest THEN dcwb_latch.result
     ELSE r[i]]

\* C14: when EX runs without a load-delay interlock, the rs and rt values
\* it hands to the opcode function are 0 for register zero (whatever the
\* DC/WB latch holds for it), the DC/WB result for the destination of the
\* DC/WB latch, and the register file's value otherwise; the general
\* registers after the tick are what WB left, so the forwarding changes
\* none.  An instruction behind a producer that is no load has no
\* interlock, reads the producer's result and retires one tick after it.
C14_Forwarding ==
  /\ [](RetiredPair /\ ~trk.prev.load =>
          /\ trk.retired.nLDI = 0
          /\ (trk.retired.rs = trk.prev.dest /\ trk.prev.dest # VR4300_REGISTER_R0)
               => trk.retired.rs_reg = trk.prev.result
          /\ (trk.retired.rt = trk.prev.dest /\ trk.prev.dest # VR4300_REGISTER_R0)
               => trk.retired.rt_reg = trk.prev.result
          /\ trk.retired.ldisWB = trk.prev.ldis
               => trk.retired.tWB = trk.prev.tIC + 5)
  /\ [][/\ ("EX" \in Ran' /\ obs'.raised # "LDI") =>
            /\ trk'.exdc.tEX = cycles'
            /\ trk'.exdc.rs_reg
                 = Operand(Field5(pipeline.rfex_latch.iw, 21),
                           pipeline'.dcwb_latch, regs')
            /\ trk'.exdc.rt_reg
                 = Operand(Field5(pipeline.rfex_latch.iw, 16),
                           pipeline'.dcwb_latch, regs')
        /\ [i \in WritableRegs |-> regs'[i]]
             = WrittenBack(regs, pipeline.dcwb_latch, "WB" \in Ran')]_vars

\* EX read register zero as 0 while the DC/WB latch held a non-zero result
\* for register zero.
C14_Witness ==
  /\ "EX" \in Ran
  /\ trk.exdc.tEX = cycles
  /\ pipeline.dcwb_latch.dest = VR4300_REGISTER_R0
  /\ pipeline.dcwb_latch.result # Zero64
  /\ trk.exdc.rs = VR4300_REGISTER_R0
  /\ trk.exdc.rs_reg = Zero64

\* The address lies in [start, start + length) of the segment.
InWindow(a, segment) ==
  segment.start <= a /\ a < segment.start + segment.length

\* C15: a run of IC calls get_segment exactly when the PC it fetches lies
\* outside the window of the segment the IC/RF latch caches.  A run that
\* does not abort leaves the stamped PC inside the window of the cached
\* segment (the cached one if it made no call, the one found otherwise) and
\* advances the PC by 4; a run whose lookup fails raises the instruction
\* address error, leaves the PC where it was and the cached segment as it
\* was.
C15_SegmentLookup ==
  [][("IC" \in Ran') =>
       LET pc == pipeline'.icrf_latch.common.pc
           before == pipeline.icrf_latch.segment
           after == pipeline'.icrf_latch.segment
       IN /\ obs'.lookups = IF InWindow(pc, before) THEN 0 ELSE 1
          /\ obs'.lookups = 0 => after = before
          /\ obs'.raised # "IADE" =>
               /\ InWindow(pc, after)
               /\ pipeline'.icrf_latch.pc = pc + 4
          /\ obs'.raised = "IADE" =>
               /\ obs'.lookups = 1
               /\ \A g \in SegmentTable : ~InWindow(pc, g)
               /\ pipeline'.icrf_latch.pc = pc
               /\ after = before]_vars

\* The fetch that crossed from the first segment into the second: one call,
\* and the latch caches the second segment.
C15_Witness ==
  /\ "IC" \in Ran
  /\ obs.lookups = 1
  /\ pipeline.icrf_latch.common.pc = SegB.start
  /\ pipeline.icrf_latch.segment = SegB
  /\ pipeline.icrf_latch.pc = SegB.start + 4

\* The last tick went through the slow path and no true fault was raised
\* in it.
SlowTick(o) == o.dispatch = "slow" /\ o.raised \notin TrueFaults

\* C18 (as amended): exception_history is incremented, by exactly one, by
\* the ticks that enter the slow path at WB and by no other tick: a tick
\* that enters at DC, EX, RF or IC, a busy-wait tick, a stalled tick and a
\* fast-path tick leave it as it is.  fault_present is cleared by the tick
\* that enters at WB and finds exception_history greater than 4 (the sixth
\* such tick since the last fault, which leaves the history at 6), and by
\* no other tick.
C18_ExceptionHistory ==
  [][/\ (SlowTick(obs') /\ obs'.type = CycleTypeWB) =>
          /\ pipeline'.exception_history = pipeline.exception_history + 1
          /\ pipeline.exception_history > 4 => ~pipeline'.fault_present
          /\ pipeline.exception_history <= 4 => pipeline'.fault_present
     /\ (obs'.raised \notin TrueFaults
           /\ ~(obs'.dispatch = "slow" /\ obs'.type = CycleTypeWB)) =>
          /\ pipeline'.exception_history = pipeline.exception_history
          /\ pipeline'.fault_present = pipeline.fault_present
     /\ (pipeline.fault_present /\ ~pipeline'.fault_present) =>
          /\ obs'.dispatch = "slow" /\ obs'.type = CycleTypeWB
          /\ pipeline.exception_history = 5
          /\ pipeline'.exception_history = 6]_vars

\* A slow-path tick entered at DC with fault_present set, ran through to
\* IC and left the exception history at 0.
C18_Witness ==
  /\ obs.dispatch = "slow"
  /\ obs.type = CycleTypeDC
  /\ obs.raised = VR4300_FAULT_NONE
  /\ "IC" \in Ran
  /\ pipeline.fault_present
  /\ pipeline.exception_history = 0
  /\ trk.faults > 0

\* C18 as stated: every slow-path tick, whichever its entry point, adds one
\* to exception_history.
C18_AsStated ==
  [][(SlowTick(obs') /\ obs'.type <= CycleTypeIC) =>
       pipeline'.exception_history = pipeline.exception_history + 1]_vars

Rank(st) ==
  CASE st = "WB" -> CycleTypeWB
    [] st = "DC" -> CycleTypeDC
    [] st = "EX" -> CycleTypeEX
    [] st = "RF" -> CycleTypeRF
    [] st = "IC" -> CycleTypeIC
\* The EX/DC latch without the fields DC itself writes.
ExDcPayload(latch) == [latch EXCEPT !.segment = SegEmpty, !.request.paddr = 0]

----------------------------------------------------------------------------
(* The data cache stage on its own: a store hit followed by a load hit of  *)
(* the same size at the same address.  The requests are what the opcode    *)
(* functions of the loads and stores hand to DC: the payload and the mask  *)
(* shifted into the byte lanes of the word (byte 0 of a word is its most   *)
(* significant byte), and for a load the mask that keeps or drops the sign *)
(* extension.                                                              *)

\* The sizes of the loads and stores, and the 2^(8 * size) - 1 of each.
AccessSizes == {1, 2, 4, 8}
SizeMask(size) ==
  CASE size = 1 -> <<255, 0, 0, 0>>
    [] size = 2 -> <<LimbMax, 0, 0, 0>>
    [] size = 4 -> <<LimbMax, LimbMax, 0, 0>>
    [] OTHER -> Ones64

\* Byte patterns: distinct bytes, the sign bit set and clear.
Patterns(size) ==
  CASE size = 1 -> {<<18, 0, 0, 0>>, <<128, 0, 0, 0>>, <<255, 0, 0, 0>>}
    [] size = 2 -> {<<4660, 0, 0, 0>>, <<32769, 0, 0, 0>>, <<65450, 0, 0, 0>>}
    [] size = 4 -> {<<22136, 4660, 0, 0>>, <<1, 32768, 0, 0>>, <<43981, 65450, 0, 0>>}
    [] OTHER -> {<<52719, 35243, 17767, 291>>, <<1, 0, 0, 32768>>,
                 <<4660, 22136, 43981, 65450>>}

\* The bus request of a store of the pattern at the address.
StoreRequest(size, address, pattern) ==
  LET lane == IF size > 4 THEN 0 ELSE (4 - size - (address % 4)) * 8
  IN [type |-> VR4300_BUS_REQUEST_WRITE, vaddr |-> address, paddr |-> 0,
      size |-> size, two_words |-> size > 4,
      dqm |-> ShiftL(SizeMask(size), lane), postshift |-> 0,
      data |-> ShiftL(pattern, lane)]

\* The bus request of a load, sign- or zero-extending.
LoadRequest(size, address, signed) ==
  [type |-> VR4300_BUS_REQUEST_READ, vaddr |-> address, paddr |-> 0,
   size |-> size, two_words |-> size > 4,
   dqm |-> IF signed THEN Ones64 ELSE SizeMask(size), postshift |-> 0,
   data |-> Zero64]

\* The tests: size, address, pattern, signedness of the load, and the line
\* contents before the store (all zeros, all ones, or a mixed word).
DcTests ==
  {[size |-> sz, address |-> a, pattern |-> b, signed |-> sg, fill |-> f,
    phase |-> "init"] :
     sz \in AccessSizes, a \in 0..(16 * Cardinality(DCacheLines) - 1),
     b \in UNION {Patterns(z) : z \in AccessSizes}, sg \in BOOLEAN,
     f \in {Zero32, Ones32, <<23130, 42405>>}}

InitDC ==
  /\ regs = [i \in RegIdx |-> Zero64]
  /\ cycles = 0
  /\ signals = 0
  /\ pipeline = vr4300_pipeline_init(PipelineZero, get_default_segment)
  /\ mem = [w \in MemWords |-> IW_NOP]
  /\ icache = {}
  /\ halted = FALSE
  /\ obs = ObsNone
  /\ \E test \in DcTests :
       /\ test.address % test.size = 0
       /\ test.pattern \in Patterns(test.size)
       /\ dcache = [l \in DCacheLines |->
                      [valid |-> TRUE, dirty |-> FALSE,
                       data |-> [w \in 0..3 |-> test.fill]]]
       /\ trk = [TrkZero EXCEPT !.test = test]

\* DC runs on the request; the test moves on to the next phase.
DcRun(request, phase) ==
  \E r \in {vr4300_dc_stage(
              [Machine EXCEPT !.obs = ObsNone,
                              !.pipeline.exdc_latch.request = request,
                              !.pipeline.exdc_latch.result = Zero64],
              InputNone)} :
     Becomes([r.m EXCEPT !.trk.test.phase = phase,
                         !.obs.abort = IF r.abort THEN "DC" ELSE "none"])

\* The store reaches DC and hits.
DcStoreHit ==
  /\ trk.test.phase = "init"
  /\ DcRun(StoreRequest(trk.test.size, trk.test.address, trk.test.pattern),
           "stored")

\* The load of the same size at the same address reaches DC and hits.
DcLoadHit ==
  /\ trk.test.phase = "stored"
  /\ DcRun(LoadRequest(trk.test.size, trk.test.address, trk.test.signed),
           "loaded")

NextDC ==
  \/ DcStoreHit
  \/ DcLoadHit

SpecDC == InitDC /\ [][NextDC]_vars

\* Byte a of the cached lines, and byte i of a value of the given size
\* (byte 0 the most significant).
ByteAt(a) ==
  ShiftR(dcache[DCacheLineOf(a)].data[(a % 16) \div 4], 8 * (3 - (a % 4)))[1] % 256
ByteOf(v, i, size) == ShiftR(v, 8 * (size - 1 - i))[1] % 256
\* The value of the given size, sign-extended to 64 bits.
SignExtended(v, size) ==
  IF ByteOf(v, 0, size) >= 128 THEN Or(v, Not(SizeMask(size))) ELSE v

\* C16: after the store hit, the bytes of the written range hold the
\* pattern, every other byte of the cached lines is as before and the line
\* is dirty; after the load hit of the same size at the same address, the
\* DC/WB result is the pattern (sign-extended if the load's mask keeps the
\* sign extension), for sizes 1, 2, 4 and 8 and every aligned address.
C16_StoreLoadRoundTrip ==
  LET test == trk.test
      range == test.address .. (test.address + test.size - 1)
  IN /\ test.phase \in {"stored", "loaded"} =>
          /\ obs.abort = "none"
          /\ "DC" \in Ran
          /\ \A a \in range :
                ByteAt(a) = ByteOf(test.pattern, a - test.address, test.size)
          /\ \A a \in 0..(16 * Cardinality(DCacheLines) - 1) : a \notin range =>
                ByteAt(a) = ByteOf(Join64(test.fill, test.fill), a % 4, 4)
          /\ dcache[DCacheLineOf(test.address)].dirty
     /\ test.phase = "loaded" =>
          /\ And(pipeline.dcwb_latch.result, SizeMask(test.size)) = test.pattern
          /\ pipeline.dcwb_latch.result =
               IF test.signed THEN SignExtended(test.pattern, test.size)
               ELSE test.pattern

\* An 8-byte pattern with two different halves came back from the second
\* half of a line that held something else.
C16_Witness ==
  /\ trk.test.phase = "loaded"
  /\ trk.test.size = 8
  /\ trk.test.address = 8
  /\ trk.test.fill = Ones32
  /\ High32(trk.test.pattern) # Low32(trk.test.pattern)
  /\ pipeline.dcwb_latch.result = trk.test.pattern

----------------------------------------------------------------------------
(* vr4300_pipeline_init on a pipeline object that has been in use.         *)

\* Pipeline objects with previous contents: fault tags, an instruction word
\* and its mask, a bus request, a destination and result, a stall count,
\* fault_present, an exception history and cached segments.
UsedPipelines ==
  {[PipelineZero EXCEPT
      !.icrf_latch.common.fault = f, !.dcwb_latch.common.fault = f,
      !.icrf_latch.segment = g, !.exdc_latch.segment = h,
      !.icrf_latch.pc = pc,
      !.rfex_latch.iw = iw, !.rfex_latch.iw_mask = mask,
      !.exdc_latch.request.type = type,
      !.dcwb_latch.dest = dest, !.dcwb_latch.result = U64(4 * dest),
      !.cycles_to_stall = stall, !.fault_present = fp,
      !.exception_history = 3 * stall] :
     f \in {VR4300_FAULT_NONE, "INTR"}, g \in {SegEmpty, SegA},
     h \in {SegEmpty, SegB}, pc \in {0, 8}, iw \in {Zero32, IW_ORI_R1},
     mask \in {Zero32, Ones32},
     type \in {VR4300_BUS_REQUEST_NONE, VR4300_BUS_REQUEST_WRITE},
     dest \in {0, 1}, stall \in {0, 1}, fp \in BOOLEAN}

InitPI ==
  /\ regs = [i \in RegIdx |-> Zero64]
  /\ cycles = 0
  /\ signals = 0
  /\ pipeline \in UsedPipelines
  /\ mem = [w \in MemWords |-> IW_NOP]
  /\ icache = {}
  /\ dcache = [l \in DCacheLines |->
                 [valid |-> FALSE, dirty |-> FALSE,
                  data |-> [w \in 0..3 |-> Zero32]]]
  /\ halted = FALSE
  /\ obs = ObsNone
  /\ trk = [TrkZero EXCEPT !.test = [phase |-> "used", before |-> pipeline]]

\* vr4300_pipeline_init(&vr4300->pipeline)
PipelineInit ==
  /\ trk.test.phase = "used"
  /\ pipeline' = vr4300_pipeline_init(pipeline, get_default_segment)
  /\ trk' = [trk EXCEPT !.test.phase = "initialised"]
  /\ UNCHANGED <<regs, cycles, signals, icache, dcache, mem, halted, obs>>

NextPI == PipelineInit

SpecPI == InitPI /\ [][NextPI]_vars

====
